---------------------------- MODULE Spec2Model ----------------------------
(***************************************************************************)
(* Model of the CDK application aws-samples/sample-eks-containers-         *)
(* observability: the build script app.py (construct tree, declared        *)
(* dependencies, synthesis of the resource dependency graph), the Auto     *)
(* Mode custom-resource handler auto_mode_lambda.on_event together with    *)
(* the provisioning engine that consumes its answer, and the reusable      *)
(* DeploymentConstruct.                                                    *)
(*                                                                         *)
(* Construct library semantics used by the code (aws-cdk-lib):             *)
(*  - cluster.add_manifest(id, m) and cluster.add_service_account(id, ..)  *)
(*    create the new construct as a child of the *cluster* (the receiver), *)
(*    not of the construct whose __init__ makes the call;                  *)
(*  - x.node.add_dependency(y) is expanded at synthesis time into one      *)
(*    DependsOn edge from every CloudFormation resource in the subtree of  *)
(*    x to every CloudFormation resource in the subtree of y; CfnOutput    *)
(*    and CfnCondition are not resources;                                  *)
(*  - a property that embeds another resource's attribute (cluster_name,   *)
(*    role_arn, service_token) is an implicit edge.                        *)
(***************************************************************************)
EXTENDS Integers, Sequences, FiniteSets, TLC

VARIABLES
    pc,         \* position of the build script app.py
    selector,   \* context value compute_mode ("none" = absent)
    account,    \* CDK_DEFAULT_ACCOUNT ("none" = unset)
    region,     \* CDK_DEFAULT_REGION ("none" = unset)
    config,     \* the resolved EnvironmentConfig (the fields the build reads)
    nodes,      \* construct tree: id -> [parent, cfn, type, kind, name, ns, ...]
    deps,       \* node.add_dependency declarations: <<source, target>>
    refs,       \* implicit edges from embedded attributes: <<source, target>>
    stackDeps,  \* Stack.add_dependency declarations: <<stack, stack>>
    manifests,  \* DeploymentConstruct.manifests (list of construct ids)
    calls,      \* DeploymentConstruct: number of add_* calls made
    events,     \* number of on_event invocations so far
    invocation, \* the last on_event invocation: its event and the provider's answer
    request,    \* keyword arguments of the last update_cluster_config call
    updateStatus,   \* the provider's asynchronous cluster update
    result,     \* what the last on_event invocation returned or raised
    providerCalls,  \* provider calls made by the last on_event invocation
    status,     \* provisioning engine: resource id -> state
    repoArg,    \* EcrRepositoriesStack: the repository_names argument
    repositories,   \* EcrRepositoriesStack.repositories: name -> repository
    repoIndex,  \* EcrRepositoriesStack: names the loop has gone through
    retention,  \* ObservabilityStack: log group -> RetentionDays member
    add_manifest_calls  \* ids a construct under test passed to cluster.add_manifest

vars == <<pc, selector, account, region, config, nodes, deps, refs,
          stackDeps, manifests, calls, events, invocation, request, updateStatus,
          result, providerCalls, status, repoArg, repositories, repoIndex,
          retention, add_manifest_calls>>

buildVars == <<selector, account, region, config, nodes, deps, refs, stackDeps>>

---------------------------------------------------------------------------
(* Inputs *)

Selectors == {"fargate", "auto-mode", "bogus", "none"}
Accounts == {"123456789012", "none"}
Regions == {"us-west-2", "none"}

NoConfig == [mode |-> "", fargate_profiles |-> <<>>, auto_mode_enabled |-> FALSE,
             cluster_name |-> "", retention_days |-> 0]

---------------------------------------------------------------------------
(* Construct tree helpers *)

Ids == DOMAIN nodes

\* A construct that is not a Kubernetes object
Node(parent, cfn, type) ==
    [parent |-> parent, cfn |-> cfn, type |-> type, kind |-> "", name |-> "",
     ns |-> "", ref |-> "", sa |-> "", cm |-> "", otlp |-> "", metric |-> "",
     nodeSelector |-> {}, tolerations |-> {}, data |-> <<>>]

\* The payload fields of a Kubernetes manifest the orderings depend on
K8s(kind, name, ns) ==
    [kind |-> kind, name |-> name, ns |-> ns, ref |-> "", sa |-> "", cm |-> "",
     otlp |-> "", metric |-> "", nodeSelector |-> {}, tolerations |-> {},
     data |-> <<>>]

CollectorEndpoint == "otel-collector.opentelemetry:4317"

---------------------------------------------------------------------------
(* Pod placement: _get_pod_spec (the same method in PrometheusConstruct,   *)
(* SampleAppConstruct, OtelAppConstruct, GoOtelAppConstruct and            *)
(* JavaOtelAppConstruct) and PrometheusAdapterConstruct._get_tolerations   *)

ComputeTypeKey == "eks.amazonaws.com/compute-type"

Toleration(value) ==
    [key |-> ComputeTypeKey, operator |-> "Equal", value |-> value,
     effect |-> "NoSchedule"]

NoPodSpec == [nodeSelector |-> {}, tolerations |-> {}]

FargatePodSpec ==
    [nodeSelector |-> {<<ComputeTypeKey, "fargate">>},
     tolerations |-> {Toleration("fargate")}]

\* _get_pod_spec: the keys merged into the pod spec by **self._get_pod_spec()
get_pod_spec(compute_config) ==
    IF compute_config.mode = "fargate" THEN FargatePodSpec ELSE NoPodSpec

\* _get_tolerations(compute_mode): the adapter's "tolerations" list
get_tolerations(compute_mode) ==
    IF compute_mode = "fargate" THEN {Toleration("fargate")}
    ELSE {Toleration("prometheus-adapter")}

\* {**pod_spec, ...}: a manifest payload with the pod spec keys merged in
WithPodSpec(k, spec) ==
    [k EXCEPT !.nodeSelector = spec.nodeSelector, !.tolerations = spec.tolerations]

---------------------------------------------------------------------------
(* The adapter's config.yaml: _get_adapter_config and the two documents.   *)
(* A document is the list of its rule entries, each with the comment line  *)
(* written above it.                                                       *)

Overrides ==
    {<<"kubernetes_namespace", "namespace">>, <<"kubernetes_pod_name", "pod">>}

RuleEntry(comment, seriesQuery, as, metricsQuery) ==
    [comment |-> comment, seriesQuery |-> seriesQuery, overrides |-> Overrides,
     as |-> as, metricsQuery |-> metricsQuery]

JavaRule(comment) ==
    RuleEntry(comment, "http_requests_total{app=\"java-otel-sample-app\"}",
              "java_app_requests_rate",
              "rate(http_requests_total{app=\"java-otel-sample-app\",<<.LabelMatchers>>}[1m]) * 60")

\* Variant of GoRule that exposes the Go metric under another name
GoRule_RequestsPerSecond(comment) ==
    RuleEntry(comment, "http_requests_total{app=\"go-otel-sample-app\"}",
              "go_app_requests_per_second",
              "rate(http_requests_total{app=\"go-otel-sample-app\",<<.LabelMatchers>>}[1m]) * 60")

GoRule(comment) ==
    RuleEntry(comment, "http_requests_total{app=\"go-otel-sample-app\"}",
              "go_app_requests_rate",
              "rate(http_requests_total{app=\"go-otel-sample-app\",<<.LabelMatchers>>}[1m]) * 60")

SampleRule(comment) ==
    RuleEntry(comment, "sample_app_requests_total{app=\"sample-metrics-app\"}",
              "sample_app_requests_rate",
              "rate(sample_app_requests_total{app=\"sample-metrics-app\",<<.LabelMatchers>>}[1m]) * 60")

OtelRule(comment) ==
    RuleEntry(comment, "pod_cpu_utilization{app=\"otel-sample-app\"}",
              "pod_cpu_utilization",
              "pod_cpu_utilization{app=\"otel-sample-app\",<<.LabelMatchers>>}")

get_auto_mode_config ==
    <<JavaRule("Java OTEL App - using http_requests_total"),
      GoRule("Go OTEL App - using http_requests_total"),
      SampleRule("Sample Metrics App - using sample_app_requests_total"),
      OtelRule("OTEL Sample App - using pod_cpu_utilization")>>

get_fargate_config ==
    <<JavaRule("Java OTEL App - Fargate (same as auto-mode, metrics don't have compute_type label)"),
      GoRule("Go OTEL App - Fargate"),
      SampleRule("Sample Metrics App - Fargate"),
      OtelRule("OTEL Sample App - Fargate CPU utilization")>>

get_adapter_config(compute_mode) ==
    IF compute_mode = "fargate" THEN get_fargate_config ELSE get_auto_mode_config

\* What the adapter reads from a document: the rules, comments dropped
RuleSet(document) ==
    {[seriesQuery |-> document[i].seriesQuery, overrides |-> document[i].overrides,
      as |-> document[i].as, metricsQuery |-> document[i].metricsQuery] :
        i \in DOMAIN document}

\* str.replace('-', '').title() of the two modes ComputeConfig.mode can hold
ModePrefix(mode) == IF mode = "fargate" THEN "Fargate" ELSE "Automode"

ClusterId(mode) ==
    IF mode = "fargate" THEN "FargateClusterFargate" ELSE "AutoModeClusterAutomode"

ClusterResource(mode) == ClusterId(mode) \o "/Resource"

RECURSIVE InSubtree(_, _, _)
InSubtree(t, n, c) ==
    IF n = c THEN TRUE
    ELSE IF n \notin DOMAIN t \/ t[n].parent = "" THEN FALSE
    ELSE InSubtree(t, t[n].parent, c)

\* findCfnResources(root): the CloudFormation resources in the subtree of c
CfnResources(t, c) == {n \in DOMAIN t : t[n].cfn /\ InSubtree(t, n, c)}

\* cluster.add_manifest(id, manifest): a KubernetesManifest under the cluster
Manifest(mode, k) ==
    [parent |-> ClusterId(mode), cfn |-> TRUE, type |-> "KubernetesManifest"] @@ k

\* Every manifest and service account embeds the cluster's name and role
ClusterRefs(mode, N) ==
    {<<n, ClusterResource(mode)>> : n \in {m \in DOMAIN N : N[m].cfn}}

deployVars == <<manifests, calls>>

callbackVars ==
    <<events, invocation, request, updateStatus, result, providerCalls, status>>

stackVars == <<repoArg, repositories, repoIndex, retention, add_manifest_calls>>

otherVars == <<deployVars, callbackVars, stackVars>>

StacksIdle ==
    /\ repoArg = <<>>
    /\ repositories = <<>>
    /\ repoIndex = 0
    /\ retention = <<>>
    /\ add_manifest_calls = <<>>

NoRequest == [name |-> "", enabled |-> "unset", nodePools |-> {}]

NoInvocation == [RequestType |-> "", ClusterName |-> "", outcome |-> ""]

NoResult == [kind |-> "none", PhysicalResourceId |-> "", Status |-> "", error |-> ""]

CallbackIdle ==
    /\ events = 0
    /\ invocation = NoInvocation
    /\ request = NoRequest
    /\ updateStatus = "none"
    /\ result = NoResult
    /\ providerCalls = 0
    /\ status = <<>>

\* One declaration step of the build script
Declare(N, D, R, next) ==
    /\ nodes' = N @@ nodes
    /\ deps' = deps \cup D
    /\ refs' = refs \cup R
    /\ pc' = next
    /\ UNCHANGED <<selector, account, region, config, stackDeps>>
    /\ UNCHANGED otherVars

---------------------------------------------------------------------------
(* Configuration resolver: app.py and EnvironmentConfig *)

\* app.node.try_get_context("compute_mode") or "auto-mode"
ComputeMode(sel) == IF sel = "none" THEN "auto-mode" ELSE sel

development ==
    [mode |-> "auto-mode",
     fargate_profiles |-> <<"default", "monitoring", "kube-system">>,
     auto_mode_enabled |-> TRUE,
     cluster_name |-> "dev-eks-automode",
     retention_days |-> 7]

fargate_development ==
    [mode |-> "fargate",
     fargate_profiles |-> <<"default", "monitoring", "opentelemetry", "kube-system">>,
     auto_mode_enabled |-> FALSE,
     cluster_name |-> "dev-eks-fargate",
     retention_days |-> 7]

\* Variant of ResolveConfig that tests for "auto-mode" and sends every other
\* selector to the Fargate profile
ResolveConfig_FargateUnlessAutoMode(sel) ==
    IF ComputeMode(sel) = "auto-mode" THEN development ELSE fargate_development

ResolveConfig(sel) ==
    IF ComputeMode(sel) = "fargate" THEN fargate_development ELSE development

BuildInit ==
    /\ pc = "config"
    /\ selector \in Selectors
    /\ account \in Accounts
    /\ region \in Regions
    /\ config = NoConfig
    /\ nodes = ("App" :> Node("", FALSE, "App"))
    /\ deps = {}
    /\ refs = {}
    /\ stackDeps = {}
    /\ manifests = <<>>
    /\ calls = 0
    /\ CallbackIdle
    /\ StacksIdle

SelectConfig ==
    /\ pc = "config"
    /\ config' = ResolveConfig(selector)
    /\ pc' = "NetworkStack"
    /\ UNCHANGED <<selector, account, region, nodes, deps, refs, stackDeps>>
    /\ UNCHANGED otherVars

---------------------------------------------------------------------------
(* The stacks app.py creates before the cluster *)

VpcStackNodes ==
    ("NetworkStack" :> Node("App", FALSE, "Stack"))
    @@ ("EksVpc" :> Node("NetworkStack", TRUE, "AWS::EC2::VPC"))

VpcStack ==
    /\ pc = "NetworkStack"
    /\ Declare(VpcStackNodes, {}, {}, "KubectlLayerStack")

KubectlLayerStackNodes ==
    ("KubectlLayerStack" :> Node("App", FALSE, "Stack"))
    @@ ("KubectlLayer" :> Node("KubectlLayerStack", TRUE, "AWS::Lambda::LayerVersion"))

KubectlLayerStack ==
    /\ pc = "KubectlLayerStack"
    /\ Declare(KubectlLayerStackNodes, {}, {}, "ObservabilityStack")

ObservabilityStackNodes ==
    ("ObservabilityStack" :> Node("App", FALSE, "Stack"))
    @@ ("AmpWorkspace" :> Node("ObservabilityStack", TRUE, "AWS::APS::Workspace"))
    @@ ("ApplicationLogGroup" :> Node("ObservabilityStack", TRUE, "AWS::Logs::LogGroup"))
    @@ ("OtelAppLogGroup" :> Node("ObservabilityStack", TRUE, "AWS::Logs::LogGroup"))

\* logs.RetentionDays: the members _get_retention_days returns, with the
\* number of days each stands for (INFINITE is 9999)
RetentionDays ==
    ("ONE_DAY" :> 1) @@ ("THREE_DAYS" :> 3) @@ ("FIVE_DAYS" :> 5)
    @@ ("ONE_WEEK" :> 7) @@ ("TWO_WEEKS" :> 14) @@ ("ONE_MONTH" :> 30)
    @@ ("TWO_MONTHS" :> 60) @@ ("THREE_MONTHS" :> 90) @@ ("FOUR_MONTHS" :> 120)
    @@ ("FIVE_MONTHS" :> 150) @@ ("SIX_MONTHS" :> 180) @@ ("ONE_YEAR" :> 365)
    @@ ("THIRTEEN_MONTHS" :> 400) @@ ("EIGHTEEN_MONTHS" :> 545)
    @@ ("TWO_YEARS" :> 731) @@ ("FIVE_YEARS" :> 1827) @@ ("TEN_YEARS" :> 3653)
    @@ ("INFINITE" :> 9999)

\* Variant of get_retention_days whose one-week test is strict (days < 7)
get_retention_days_StrictWeek(days) ==
    IF days <= 1 THEN "ONE_DAY"
    ELSE IF days <= 3 THEN "THREE_DAYS"
    ELSE IF days <= 5 THEN "FIVE_DAYS"
    ELSE IF days < 7 THEN "ONE_WEEK"
    ELSE IF days <= 14 THEN "TWO_WEEKS"
    ELSE IF days <= 30 THEN "ONE_MONTH"
    ELSE IF days <= 60 THEN "TWO_MONTHS"
    ELSE IF days <= 90 THEN "THREE_MONTHS"
    ELSE IF days <= 120 THEN "FOUR_MONTHS"
    ELSE IF days <= 150 THEN "FIVE_MONTHS"
    ELSE IF days <= 180 THEN "SIX_MONTHS"
    ELSE IF days <= 365 THEN "ONE_YEAR"
    ELSE IF days <= 400 THEN "THIRTEEN_MONTHS"
    ELSE IF days <= 545 THEN "EIGHTEEN_MONTHS"
    ELSE IF days <= 731 THEN "TWO_YEARS"
    ELSE IF days <= 1827 THEN "FIVE_YEARS"
    ELSE IF days <= 3653 THEN "TEN_YEARS"
    ELSE "INFINITE"

\* _get_retention_days(days)
get_retention_days(days) ==
    IF days <= 1 THEN "ONE_DAY"
    ELSE IF days <= 3 THEN "THREE_DAYS"
    ELSE IF days <= 5 THEN "FIVE_DAYS"
    ELSE IF days <= 7 THEN "ONE_WEEK"
    ELSE IF days <= 14 THEN "TWO_WEEKS"
    ELSE IF days <= 30 THEN "ONE_MONTH"
    ELSE IF days <= 60 THEN "TWO_MONTHS"
    ELSE IF days <= 90 THEN "THREE_MONTHS"
    ELSE IF days <= 120 THEN "FOUR_MONTHS"
    ELSE IF days <= 150 THEN "FIVE_MONTHS"
    ELSE IF days <= 180 THEN "SIX_MONTHS"
    ELSE IF days <= 365 THEN "ONE_YEAR"
    ELSE IF days <= 400 THEN "THIRTEEN_MONTHS"
    ELSE IF days <= 545 THEN "EIGHTEEN_MONTHS"
    ELSE IF days <= 731 THEN "TWO_YEARS"
    ELSE IF days <= 1827 THEN "FIVE_YEARS"
    ELSE IF days <= 3653 THEN "TEN_YEARS"
    ELSE "INFINITE"

\* The retention argument of the two logs.LogGroup constructions
LogGroupRetention(monitoring_config) ==
    ("ApplicationLogGroup" :> get_retention_days(monitoring_config.retention_days))
    @@ ("OtelAppLogGroup" :> get_retention_days(monitoring_config.retention_days))

\* ObservabilityStack(scope, id, monitoring_config)
ObservabilityConstructor(monitoring_config, next) ==
    /\ nodes' = ObservabilityStackNodes @@ nodes
    /\ retention' = LogGroupRetention(monitoring_config)
    /\ pc' = next
    /\ UNCHANGED <<selector, account, region, deps, refs, stackDeps>>
    /\ UNCHANGED <<deployVars, callbackVars, repoArg, repositories, repoIndex,
                   add_manifest_calls>>

ObservabilityStack ==
    /\ pc = "ObservabilityStack"
    /\ ObservabilityConstructor(config, "EcrStack")
    /\ UNCHANGED config

repository_names ==
    <<"sample-metrics-app", "otel-sample-app", "go-otel-sample-app", "java-otel-sample-app">>

\* f"{repo_name.replace('-', '')}Repo" for the names the model uses
RepoId(name) ==
    CASE name = "sample-metrics-app" -> "samplemetricsappRepo"
      [] name = "otel-sample-app" -> "otelsampleappRepo"
      [] name = "go-otel-sample-app" -> "gootelsampleappRepo"
      [] name = "java-otel-sample-app" -> "javaotelsampleappRepo"
      [] name = "web-app" -> "webappRepo"
      [] name = "webapp" -> "webappRepo"

\* super().__init__ and self.repositories = {}: the state the loop starts in
EcrStackStart(N) ==
    [nodes |-> ("EcrStack" :> Node("App", FALSE, "Stack")) @@ N,
     repositories |-> <<>>, index |-> 0, error |-> FALSE]

\* The for loop of EcrRepositoriesStack.__init__ from position i on.  A
\* construct id already taken in the stack makes ecr.Repository raise, which
\* ends the constructor with the names gone through so far.
RECURSIVE EcrLoop(_, _, _)
EcrLoop(names, i, st) ==
    IF i > Len(names) THEN st
    ELSE IF RepoId(names[i]) \in DOMAIN st.nodes THEN [st EXCEPT !.error = TRUE]
    ELSE EcrLoop(names, i + 1,
            [nodes |-> (RepoId(names[i]) :>
                          [Node("EcrStack", TRUE, "AWS::ECR::Repository")
                              EXCEPT !.name = names[i]]) @@ st.nodes,
             repositories |-> (names[i] :> RepoId(names[i])) @@ st.repositories,
             index |-> i,
             error |-> FALSE])

\* EcrRepositoriesStack(scope, id, repository_names)
EcrConstructor(names, next) ==
    LET st == EcrLoop(names, 1, EcrStackStart(nodes)) IN
    /\ nodes' = st.nodes
    /\ repoArg' = names
    /\ repositories' = st.repositories
    /\ repoIndex' = st.index
    /\ pc' = IF st.error THEN "error" ELSE next
    /\ UNCHANGED <<selector, account, region, config, deps, refs, stackDeps>>
    /\ UNCHANGED <<deployVars, callbackVars, retention, add_manifest_calls>>

EcrRepositoriesStack ==
    /\ pc = "EcrStack"
    /\ EcrConstructor(repository_names, "EksClusterStack")

---------------------------------------------------------------------------
(* EksClusterStack.__init__, one step per method it calls *)

Stack == "EksClusterStack"

EksClusterStackInit ==
    /\ pc = "EksClusterStack"
    /\ Declare(Stack :> Node("App", FALSE, "Stack"), {}, {}, "cluster_role")

CreateClusterServiceRole ==
    /\ pc = "cluster_role"
    /\ Declare("EksClusterServiceRole" :> Node(Stack, TRUE, "AWS::IAM::Role"),
               {}, {}, "node_group_role")

CreateNodeGroupServiceRole ==
    /\ pc = "node_group_role"
    /\ Declare("EksNodeGroupServiceRole" :> Node(Stack, TRUE, "AWS::IAM::Role"),
               {}, {}, "check_replace")

CheckAndReplaceClusterIfNeeded ==
    /\ pc = "check_replace"
    /\ Declare("ComputeModeChanged" :> Node(Stack, FALSE, "CfnCondition"),
               {}, {}, "cluster")

\* _create_fargate_cluster / _create_auto_mode_cluster: the same eks.Cluster
\* under a mode-dependent construct id
ClusterNodes(mode) ==
    (ClusterId(mode) :> Node(Stack, FALSE, "eks.Cluster"))
    @@ (ClusterResource(mode) :> Node(ClusterId(mode), TRUE, "AWS::EKS::Cluster"))

ClusterRefsOut(mode) ==
    {<<ClusterResource(mode), "EksClusterServiceRole">>,
     <<ClusterResource(mode), "EksVpc">>,
     <<ClusterResource(mode), "KubectlLayer">>}

CreateCluster ==
    /\ pc = "cluster"
    /\ Declare(ClusterNodes(config.mode), {}, ClusterRefsOut(config.mode), "namespaces")

MonitoringNamespaceId(mode) == ModePrefix(mode) \o "MonitoringNamespace"
OpenTelemetryNamespaceId(mode) == ModePrefix(mode) \o "OpenTelemetryNamespace"

NamespaceNodes(mode) ==
    (MonitoringNamespaceId(mode) :> Manifest(mode, K8s("Namespace", "monitoring", "")))
    @@ (OpenTelemetryNamespaceId(mode) :>
            Manifest(mode, K8s("Namespace", "opentelemetry", "")))

\* __init__ lines 45-53: Fargate profiles in fargate mode, the Auto Mode
\* custom resource in auto-mode
AfterNamespaces(mode) ==
    IF mode = "fargate" THEN "fargate_profiles"
    ELSE IF mode = "auto-mode" THEN "enable_auto_mode"
    ELSE "admin_access"

CreateNamespaces ==
    /\ pc = "namespaces"
    /\ Declare(NamespaceNodes(config.mode), {},
               ClusterRefs(config.mode, NamespaceNodes(config.mode)),
               AfterNamespaces(config.mode))

FargateProfileId(ns) == ns \o "-fargate-profile"

FargateProfileNodes(mode, profiles) ==
    [id \in {FargateProfileId(profiles[i]) : i \in DOMAIN profiles} |->
        [Node(ClusterId(mode), TRUE, "AWS::EKS::FargateProfile") EXCEPT
            !.ns = CHOOSE n \in {profiles[i] : i \in DOMAIN profiles} :
                        FargateProfileId(n) = id]]

\* Variant of FargateProfileDeps in which the profile of a namespace the
\* stack creates waits for that namespace's manifest
FargateProfileDeps_AfterNamespaces(mode, profiles) ==
    {<<FargateProfileId(profiles[i]), ModePrefix(mode) \o "MonitoringNamespace">> :
        i \in {j \in DOMAIN profiles : profiles[j] = "monitoring"}}

\* lines 90-96: add_fargate_profile only; no add_dependency is called
FargateProfileDeps(mode, profiles) == {}

EnsureFargateNamespacesReady ==
    /\ pc = "fargate_profiles"
    /\ Declare(FargateProfileNodes(config.mode, config.fargate_profiles),
               FargateProfileDeps(config.mode, config.fargate_profiles),
               ClusterRefs(config.mode,
                           FargateProfileNodes(config.mode, config.fargate_profiles)),
               "admin_access")

EnableAutoModeNodes ==
    ("AutoModeLambdaRole" :> Node(Stack, TRUE, "AWS::IAM::Role"))
    @@ ("AutoModeLambda" :> Node(Stack, TRUE, "AWS::Lambda::Function"))
    @@ ("AutoModeProvider" :> Node(Stack, FALSE, "cr.Provider"))
    @@ ("AutoModeProvider/framework-onEvent" :>
            Node("AutoModeProvider", TRUE, "AWS::Lambda::Function"))
    @@ ("EnableAutoMode" :> Node(Stack, TRUE, "AWS::CloudFormation::CustomResource"))

EnableAutoModeRefs(mode) ==
    {<<"AutoModeLambdaRole", "EksNodeGroupServiceRole">>,
     <<"AutoModeLambda", "AutoModeLambdaRole">>,
     <<"AutoModeProvider/framework-onEvent", "AutoModeLambda">>,
     <<"EnableAutoMode", "AutoModeProvider/framework-onEvent">>,
     <<"EnableAutoMode", ClusterResource(mode)>>,
     <<"EnableAutoMode", "EksNodeGroupServiceRole">>}

\* self.auto_mode_enabler.node.add_dependency(self.cluster)
EnableAutoModeDeps(mode) == {<<"EnableAutoMode", ClusterId(mode)>>}

EnableAutoMode ==
    /\ pc = "enable_auto_mode"
    /\ Declare(EnableAutoModeNodes, EnableAutoModeDeps(config.mode),
               EnableAutoModeRefs(config.mode), "admin_access")

\* admin_user_arn is set by both profiles, admin_role_arn by neither:
\* cluster.aws_auth is created with one user mapping
AdminAccessNodes(mode) ==
    "AwsAuth" :> Manifest(mode, K8s("ConfigMap", "aws-auth", "kube-system"))

ConfigureAdminAccess ==
    /\ pc = "admin_access"
    /\ Declare(AdminAccessNodes(config.mode), {},
               ClusterRefs(config.mode, AdminAccessNodes(config.mode)),
               "creator_access")

AddClusterCreatorAccess ==
    /\ pc = "creator_access"
    /\ Declare("ClusterCreatorAccessEntry" :> Node(Stack, TRUE, "AWS::EKS::AccessEntry"),
               {}, {<<"ClusterCreatorAccessEntry", ClusterResource(config.mode)>>},
               "addons")

\* hasattr(self, 'auto_mode_enabler')
HasAutoModeEnabler(t) == "EnableAutoMode" \in DOMAIN t

AddonPrefix(hasEnabler) == IF hasEnabler THEN "AutoMode" ELSE "Fargate"

AddonNames == {"coredns", "eks-pod-identity-agent", "vpc-cni", "kube-proxy"}

AddonSuffix(addon) ==
    CASE addon = "coredns" -> "CoreDnsAddon"
      [] addon = "eks-pod-identity-agent" -> "PodIdentityAgentAddon"
      [] addon = "vpc-cni" -> "VpcCniAddon"
      [] addon = "kube-proxy" -> "KubeProxyAddon"

AddonId(hasEnabler, addon) == AddonPrefix(hasEnabler) \o AddonSuffix(addon)

AddonNodes(hasEnabler) ==
    [id \in {AddonId(hasEnabler, a) : a \in AddonNames} |->
        [Node(Stack, TRUE, "AWS::EKS::Addon") EXCEPT
            !.name = CHOOSE a \in AddonNames : AddonId(hasEnabler, a) = id]]

\* Variant of AddonDeps in which the last add_dependency call (kube-proxy)
\* is missing
AddonDeps_WithoutKubeProxy(hasEnabler) ==
    IF hasEnabler
    THEN {<<AddonId(hasEnabler, a), "EnableAutoMode">> : a \in AddonNames \ {"kube-proxy"}}
    ELSE {}

\* lines 376-381: the add-ons wait for the Auto Mode custom resource, if any
AddonDeps(hasEnabler) ==
    IF hasEnabler
    THEN {<<AddonId(hasEnabler, a), "EnableAutoMode">> : a \in AddonNames}
    ELSE {}

AddClusterAddons ==
    /\ pc = "addons"
    /\ Declare(AddonNodes(HasAutoModeEnabler(nodes)),
               AddonDeps(HasAutoModeEnabler(nodes)),
               ClusterRefs(config.mode, AddonNodes(HasAutoModeEnabler(nodes))),
               "adot_role")

AdotRoleNodes(mode) ==
    ("OpenIdConnectProvider" :> Node(ClusterId(mode), TRUE, "Custom::AWSCDKOpenIdConnectProvider"))
    @@ ("AdotConditionsJson" :> Node(Stack, TRUE, "Custom::AWSCDKCfnJson"))
    @@ ("AdotCollectorRole" :> Node(Stack, TRUE, "AWS::IAM::Role"))

AdotRoleRefs(mode) ==
    {<<"OpenIdConnectProvider", ClusterResource(mode)>>,
     <<"AdotConditionsJson", "OpenIdConnectProvider">>,
     <<"AdotCollectorRole", "OpenIdConnectProvider">>,
     <<"AdotCollectorRole", "AdotConditionsJson">>}

CreateAdotRole ==
    /\ pc = "adot_role"
    /\ Declare(AdotRoleNodes(config.mode), {}, AdotRoleRefs(config.mode), "logging")

LoggingNodes(mode) ==
    "ClusterLogging" :> Manifest(mode, K8s("ConfigMap", "aws-logging", "kube-system"))

ConfigureLogging ==
    /\ pc = "logging"
    /\ Declare(LoggingNodes(config.mode), {},
               ClusterRefs(config.mode, LoggingNodes(config.mode)), "outputs")

OutputIds ==
    {"ClusterName", "ClusterEndpoint", "ClusterArn", "KubectlConfigCommand",
     "AutoModeStatus", "AdotRoleArn", "ClusterServiceRoleArn"}

AddOutputs ==
    /\ pc = "outputs"
    /\ Declare([id \in OutputIds |-> Node(Stack, FALSE, "CfnOutput")], {}, {},
               "Prometheus")

---------------------------------------------------------------------------
(* PrometheusConstruct (monitoring_namespace is passed by app.py) *)

PrometheusNodes(mode) ==
    ("Prometheus" :> Node(Stack, FALSE, "Construct"))
    @@ ("prometheus-sa" :>
            [Manifest(mode, K8s("ServiceAccount", "amp-iamproxy-service-account",
                                "monitoring")) EXCEPT !.type = "eks.ServiceAccount"])
    @@ ("PrometheusClusterRole" :>
            Manifest(mode, K8s("ClusterRole", "prometheus-cluster-role", "")))
    @@ ("PrometheusClusterRoleBinding" :>
            Manifest(mode, [K8s("ClusterRoleBinding", "prometheus-cluster-role-binding", "")
                              EXCEPT !.ref = "prometheus-cluster-role"]))
    @@ ("PrometheusConfigMap" :>
            Manifest(mode, K8s("ConfigMap", "prometheus-server-conf", "monitoring")))
    @@ ("PrometheusDeployment" :>
            Manifest(mode, WithPodSpec(
                             [K8s("Deployment", "prometheus-server", "monitoring")
                                EXCEPT !.sa = "amp-iamproxy-service-account",
                                       !.cm = "prometheus-server-conf"],
                             get_pod_spec([mode |-> mode]))))
    @@ ("PrometheusService" :>
            Manifest(mode, K8s("Service", "prometheus-service", "monitoring")))
    @@ ("PrometheusServiceName" :> Node("Prometheus", FALSE, "CfnOutput"))

PrometheusDeps(monitoring_namespace) ==
    {<<"prometheus-sa", monitoring_namespace>>,
     <<"PrometheusClusterRoleBinding", "PrometheusClusterRole">>,
     <<"PrometheusClusterRoleBinding", monitoring_namespace>>,
     <<"PrometheusConfigMap", monitoring_namespace>>,
     <<"PrometheusDeployment", "PrometheusConfigMap">>,
     <<"PrometheusDeployment", "prometheus-sa">>,
     <<"PrometheusDeployment", "PrometheusClusterRoleBinding">>,
     <<"PrometheusService", "PrometheusDeployment">>}

PrometheusConstruct ==
    /\ pc = "Prometheus"
    /\ Declare(PrometheusNodes(config.mode),
               PrometheusDeps(MonitoringNamespaceId(config.mode)),
               ClusterRefs(config.mode, PrometheusNodes(config.mode)),
               "PrometheusWiring")

\* app.py lines 97-98
PrometheusWiringDeps(mode) ==
    {<<"Prometheus", Stack>>, <<"Prometheus", MonitoringNamespaceId(mode)>>}

PrometheusWiring ==
    /\ pc = "PrometheusWiring"
    /\ Declare(<<>>, PrometheusWiringDeps(config.mode), {}, "PrometheusAdapter")

---------------------------------------------------------------------------
(* PrometheusAdapterConstruct (app.py passes no monitoring_namespace) *)

PrometheusAdapterNodes(mode) ==
    ("PrometheusAdapter" :> Node(Stack, FALSE, "Construct"))
    @@ ("MonitoringNamespacePrometheus" :>
            Manifest(mode, K8s("Namespace", "monitoring", "")))
    @@ ("prometheus-adapter-sa" :>
            [Manifest(mode, K8s("ServiceAccount", "prometheus-adapter", "monitoring"))
                EXCEPT !.type = "eks.ServiceAccount"])
    @@ ("PrometheusAdapterRole" :>
            Manifest(mode, K8s("ClusterRole", "prometheus-adapter", "")))
    @@ ("PrometheusAdapterBinding" :>
            Manifest(mode, [K8s("ClusterRoleBinding", "prometheus-adapter", "")
                              EXCEPT !.ref = "prometheus-adapter"]))
    @@ ("PrometheusAdapterConfig" :>
            Manifest(mode, [K8s("ConfigMap", "adapter-config", "monitoring")
                              EXCEPT !.data = get_adapter_config(mode)]))
    @@ ("PrometheusAdapterDeployment" :>
            Manifest(mode, [K8s("Deployment", "prometheus-adapter", "monitoring")
                              EXCEPT !.sa = "prometheus-adapter",
                                     !.cm = "adapter-config",
                                     !.tolerations = get_tolerations(mode)]))
    @@ ("PrometheusAdapterService" :>
            Manifest(mode, K8s("Service", "prometheus-adapter", "monitoring")))
    @@ ("PrometheusAdapterAPIService" :>
            Manifest(mode, K8s("APIService", "v1beta1.custom.metrics.k8s.io", "")))

\* Variant of PrometheusAdapterDeps in which the Deployment does not wait
\* for its service account
PrometheusAdapterDeps_WithoutServiceAccount ==
    {<<"PrometheusAdapterDeployment", "PrometheusAdapterConfig">>,
     <<"PrometheusAdapterService", "PrometheusAdapterDeployment">>,
     <<"PrometheusAdapterAPIService", "PrometheusAdapterService">>}

\* lines 225-229
PrometheusAdapterDeps ==
    {<<"PrometheusAdapterDeployment", "PrometheusAdapterConfig">>,
     <<"PrometheusAdapterDeployment", "prometheus-adapter-sa">>,
     <<"PrometheusAdapterService", "PrometheusAdapterDeployment">>,
     <<"PrometheusAdapterAPIService", "PrometheusAdapterService">>}

PrometheusAdapterConstruct ==
    /\ pc = "PrometheusAdapter"
    /\ Declare(PrometheusAdapterNodes(config.mode), PrometheusAdapterDeps,
               ClusterRefs(config.mode, PrometheusAdapterNodes(config.mode)),
               "PrometheusAdapterWiring")

\* app.py lines 109-111
PrometheusAdapterWiringDeps(mode) ==
    {<<"PrometheusAdapter", Stack>>,
     <<"PrometheusAdapter", "Prometheus">>,
     <<"PrometheusAdapter", MonitoringNamespaceId(mode)>>}

PrometheusAdapterWiring ==
    /\ pc = "PrometheusAdapterWiring"
    /\ Declare(<<>>, PrometheusAdapterWiringDeps(config.mode), {}, "SampleMetricsApp")

---------------------------------------------------------------------------
(* SampleAppConstruct *)

\* Variant of SampleAppNodes that leaves the autoscaler out on Fargate
SampleAppNodes_NoHpaOnFargate(mode) ==
    ("SampleMetricsApp" :> Node(Stack, FALSE, "Construct"))
    @@ ("SampleMetricsAppDeployment" :>
            Manifest(mode, WithPodSpec(K8s("Deployment", "sample-metrics-app", "default"),
                                       get_pod_spec([mode |-> mode]))))
    @@ ("SampleMetricsAppService" :>
            Manifest(mode, K8s("Service", "sample-metrics-app", "default")))
    @@ (IF mode = "fargate" THEN <<>>
        ELSE ("SampleMetricsAppHPA" :>
                Manifest(mode, [K8s("HorizontalPodAutoscaler", "sample-metrics-app-hpa",
                                    "default")
                                  EXCEPT !.ref = "sample-metrics-app",
                                         !.metric = "sample_app_requests_rate"])))

SampleAppNodes(mode) ==
    ("SampleMetricsApp" :> Node(Stack, FALSE, "Construct"))
    @@ ("SampleMetricsAppDeployment" :>
            Manifest(mode, WithPodSpec(K8s("Deployment", "sample-metrics-app", "default"),
                                       get_pod_spec([mode |-> mode]))))
    @@ ("SampleMetricsAppService" :>
            Manifest(mode, K8s("Service", "sample-metrics-app", "default")))
    @@ ("SampleMetricsAppHPA" :>
            Manifest(mode, [K8s("HorizontalPodAutoscaler", "sample-metrics-app-hpa", "default")
                              EXCEPT !.ref = "sample-metrics-app",
                                     !.metric = "sample_app_requests_rate"]))

\* The ids of the cluster.add_manifest calls, in the order they are made
SampleAppManifests ==
    <<"SampleMetricsAppDeployment", "SampleMetricsAppService", "SampleMetricsAppHPA">>

\* Variant of SampleAppDeps in which the Deployment also waits for the
\* Auto Mode custom resource
SampleAppDeps_AfterAutoMode ==
    {<<"SampleMetricsAppService", "SampleMetricsAppDeployment">>,
     <<"SampleMetricsAppHPA", "SampleMetricsAppDeployment">>,
     <<"SampleMetricsAppDeployment", "EnableAutoMode">>}

SampleAppDeps ==
    {<<"SampleMetricsAppService", "SampleMetricsAppDeployment">>,
     <<"SampleMetricsAppHPA", "SampleMetricsAppDeployment">>}

SampleAppConstruct ==
    /\ pc = "SampleMetricsApp"
    /\ Declare(SampleAppNodes(config.mode), SampleAppDeps,
               ClusterRefs(config.mode, SampleAppNodes(config.mode)),
               "SampleMetricsAppWiring")

\* app.py line 122
SampleAppWiring ==
    /\ pc = "SampleMetricsAppWiring"
    /\ Declare(<<>>, {<<"SampleMetricsApp", "PrometheusAdapter">>}, {}, "OtelSampleApp")

---------------------------------------------------------------------------
(* OtelAppConstruct: the collector and the Python sample app *)

OtelAppNodes(mode) ==
    ("OtelSampleApp" :> Node(Stack, FALSE, "Construct"))
    @@ ("OtelCollectorSA" :>
            Manifest(mode, K8s("ServiceAccount", "otel-collector-sa", "opentelemetry")))
    @@ ("OtelCollectorRole" :>
            Manifest(mode, K8s("ClusterRole", "otel-collector-role", "")))
    @@ ("OtelCollectorRoleBinding" :>
            Manifest(mode, [K8s("ClusterRoleBinding", "otel-collector-role-binding", "")
                              EXCEPT !.ref = "otel-collector-role"]))
    @@ ("OtelCollectorConfig" :>
            Manifest(mode, K8s("ConfigMap", "otel-collector-conf", "opentelemetry")))
    @@ ("OtelCollectorDeployment" :>
            Manifest(mode, [K8s("Deployment", "otel-collector", "opentelemetry")
                              EXCEPT !.sa = "otel-collector-sa",
                                     !.cm = "otel-collector-conf"]))
    @@ ("OtelCollectorService" :>
            Manifest(mode, K8s("Service", "otel-collector", "opentelemetry")))
    @@ ("OtelSampleAppDeployment" :>
            Manifest(mode, WithPodSpec(
                             [K8s("Deployment", "otel-sample-app", "default")
                                EXCEPT !.otlp = CollectorEndpoint],
                             get_pod_spec([mode |-> mode]))))
    @@ ("OtelSampleAppService" :>
            Manifest(mode, K8s("Service", "otel-sample-app", "default")))
    @@ ("OtelSampleAppHPA" :>
            Manifest(mode, [K8s("HorizontalPodAutoscaler", "otel-sample-app-hpa", "default")
                              EXCEPT !.ref = "otel-sample-app",
                                     !.metric = "pod_cpu_utilization"]))

OtelAppDeps(opentelemetry_namespace) ==
    {<<"OtelCollectorSA", opentelemetry_namespace>>,
     <<"OtelCollectorRoleBinding", "OtelCollectorRole">>,
     <<"OtelCollectorRoleBinding", "OtelCollectorSA">>,
     <<"OtelCollectorConfig", opentelemetry_namespace>>,
     <<"OtelCollectorDeployment", "OtelCollectorConfig">>,
     <<"OtelCollectorDeployment", "OtelCollectorRoleBinding">>,
     <<"OtelCollectorService", "OtelCollectorDeployment">>,
     <<"OtelSampleAppDeployment", "OtelCollectorService">>,
     <<"OtelSampleAppService", "OtelSampleAppDeployment">>,
     <<"OtelSampleAppHPA", "OtelSampleAppDeployment">>}

OtelAppConstruct ==
    /\ pc = "OtelSampleApp"
    /\ Declare(OtelAppNodes(config.mode),
               OtelAppDeps(OpenTelemetryNamespaceId(config.mode)),
               ClusterRefs(config.mode, OtelAppNodes(config.mode)),
               "OtelSampleAppWiring")

\* app.py lines 135-137
OtelAppWiringDeps(mode) ==
    {<<"OtelSampleApp", OpenTelemetryNamespaceId(mode)>>,
     <<"OtelSampleApp", "PrometheusAdapter">>}

OtelAppWiring ==
    /\ pc = "OtelSampleAppWiring"
    /\ Declare(<<>>, OtelAppWiringDeps(config.mode), {}, "GoOtelSampleApp")

---------------------------------------------------------------------------
(* GoOtelAppConstruct and JavaOtelAppConstruct *)

GoOtelAppNodes(mode) ==
    ("GoOtelSampleApp" :> Node(Stack, FALSE, "Construct"))
    @@ ("GoOtelAppDeployment" :>
            Manifest(mode, WithPodSpec(
                             [K8s("Deployment", "go-otel-sample-app", "default")
                                EXCEPT !.otlp = CollectorEndpoint],
                             get_pod_spec([mode |-> mode]))))
    @@ ("GoOtelAppService" :>
            Manifest(mode, K8s("Service", "go-otel-sample-app", "default")))
    @@ ("GoOtelAppHPA" :>
            Manifest(mode, [K8s("HorizontalPodAutoscaler", "go-otel-sample-app-hpa", "default")
                              EXCEPT !.ref = "go-otel-sample-app",
                                     !.metric = "go_app_requests_rate"]))

GoOtelAppDeps ==
    {<<"GoOtelAppService", "GoOtelAppDeployment">>,
     <<"GoOtelAppHPA", "GoOtelAppDeployment">>}

GoOtelAppConstruct ==
    /\ pc = "GoOtelSampleApp"
    /\ Declare(GoOtelAppNodes(config.mode), GoOtelAppDeps,
               ClusterRefs(config.mode, GoOtelAppNodes(config.mode)),
               "GoOtelSampleAppWiring")

\* app.py line 150
GoOtelAppWiring ==
    /\ pc = "GoOtelSampleAppWiring"
    /\ Declare(<<>>, {<<"GoOtelSampleApp", "PrometheusAdapter">>}, {}, "JavaOtelSampleApp")

JavaOtelAppNodes(mode) ==
    ("JavaOtelSampleApp" :> Node(Stack, FALSE, "Construct"))
    @@ ("JavaOtelSampleAppDeployment" :>
            Manifest(mode, WithPodSpec(
                             [K8s("Deployment", "java-otel-sample-app", "default")
                                EXCEPT !.otlp = CollectorEndpoint],
                             get_pod_spec([mode |-> mode]))))
    @@ ("JavaOtelSampleAppService" :>
            Manifest(mode, K8s("Service", "java-otel-sample-app", "default")))
    @@ ("JavaOtelSampleAppHPA" :>
            Manifest(mode, [K8s("HorizontalPodAutoscaler", "java-otel-sample-app-hpa", "default")
                              EXCEPT !.ref = "java-otel-sample-app",
                                     !.metric = "java_app_requests_rate"]))

JavaOtelAppDeps ==
    {<<"JavaOtelSampleAppService", "JavaOtelSampleAppDeployment">>,
     <<"JavaOtelSampleAppHPA", "JavaOtelSampleAppDeployment">>}

JavaOtelAppConstruct ==
    /\ pc = "JavaOtelSampleApp"
    /\ Declare(JavaOtelAppNodes(config.mode), JavaOtelAppDeps,
               ClusterRefs(config.mode, JavaOtelAppNodes(config.mode)),
               "JavaOtelSampleAppWiring")

\* app.py line 163
JavaOtelAppWiring ==
    /\ pc = "JavaOtelSampleAppWiring"
    /\ Declare(<<>>, {<<"JavaOtelSampleApp", "PrometheusAdapter">>}, {}, "stack_deps")

---------------------------------------------------------------------------
(* app.py lines 165-175: stack dependencies and synthesis *)

StackDependencies ==
    {<<Stack, "NetworkStack">>, <<Stack, "KubectlLayerStack">>,
     <<Stack, "ObservabilityStack">>}

AddStackDependencies ==
    /\ pc = "stack_deps"
    /\ stackDeps' = stackDeps \cup StackDependencies
    /\ pc' = "synth"
    /\ UNCHANGED <<selector, account, region, config, nodes, deps, refs>>
    /\ UNCHANGED otherVars

Synth ==
    /\ pc = "synth"
    /\ pc' = "done"
    /\ UNCHANGED buildVars
    /\ UNCHANGED otherVars

BuildNext ==
    \/ SelectConfig
    \/ VpcStack
    \/ KubectlLayerStack
    \/ ObservabilityStack
    \/ EcrRepositoriesStack
    \/ EksClusterStackInit
    \/ CreateClusterServiceRole
    \/ CreateNodeGroupServiceRole
    \/ CheckAndReplaceClusterIfNeeded
    \/ CreateCluster
    \/ CreateNamespaces
    \/ EnsureFargateNamespacesReady
    \/ EnableAutoMode
    \/ ConfigureAdminAccess
    \/ AddClusterCreatorAccess
    \/ AddClusterAddons
    \/ CreateAdotRole
    \/ ConfigureLogging
    \/ AddOutputs
    \/ PrometheusConstruct
    \/ PrometheusWiring
    \/ PrometheusAdapterConstruct
    \/ PrometheusAdapterWiring
    \/ SampleAppConstruct
    \/ SampleAppWiring
    \/ OtelAppConstruct
    \/ OtelAppWiring
    \/ GoOtelAppConstruct
    \/ GoOtelAppWiring
    \/ JavaOtelAppConstruct
    \/ JavaOtelAppWiring
    \/ AddStackDependencies
    \/ Synth

Spec == BuildInit /\ [][BuildNext]_vars

---------------------------------------------------------------------------
(* The synthesized resource graph *)

\* prepareApp: every declared dependency, expanded to the resources of the
\* two subtrees, plus the implicit edges; an edge <<s, t>> reads "s depends
\* on t", i.e. t is a predecessor of s
Edges ==
    refs \cup
    UNION {{<<s, t>> : s \in CfnResources(nodes, d[1]),
                       t \in CfnResources(nodes, d[2])} : d \in deps}

ResourceEdges == {e \in Edges : e[1] # e[2]}

RECURSIVE Closure(_, _, _)
Closure(E, frontier, seen) ==
    IF frontier = {} THEN seen
    ELSE LET next == {e[2] : e \in {x \in E : x[1] \in frontier}} \ seen
         IN Closure(E, next, seen \cup next)

\* The transitive dependency predecessors of resource r
Predecessors(r) == Closure(ResourceEdges, {r}, {})

\* The direct dependency predecessors of resource r
DirectPredecessors(r) == {e[2] : e \in {x \in ResourceEdges : x[1] = r}}

Resources == {n \in DOMAIN nodes : nodes[n].cfn}

OfKind(kind) == {n \in Resources : nodes[n].kind = kind}

Built == pc = "done"

---------------------------------------------------------------------------
(* Objects the ordering rules speak about, selected by manifest payload *)

HPAs == OfKind("HorizontalPodAutoscaler")
Deployments == OfKind("Deployment")
Addons == {n \in Resources : nodes[n].type = "AWS::EKS::Addon"}

AdapterDeployment == {d \in Deployments : nodes[d].name = "prometheus-adapter"}
AdapterAPIService == OfKind("APIService")
CollectorDeployment == {d \in Deployments : nodes[d].name = "otel-collector"}
CollectorService == {s \in OfKind("Service") : nodes[s].name = "otel-collector"}

\* The Deployment an HPA's scaleTargetRef names, and the Service in front of it
TargetOf(h) ==
    {d \in Deployments : nodes[d].name = nodes[h].ref /\ nodes[d].ns = nodes[h].ns}
ServiceOf(d) ==
    {s \in OfKind("Service") : nodes[s].name = nodes[d].name /\ nodes[s].ns = nodes[d].ns}

---------------------------------------------------------------------------
(* Ordering claims on the synthesized graph *)

\* C1: in both compute modes every sample workload's HPA, scaling on an
\* adapter-sourced Pods metric, has the metrics-adapter Deployment and
\* APIService among its transitive dependency predecessors.
C1_HpaAfterAdapter ==
    Built =>
        /\ Cardinality(HPAs) = 4
        /\ \A h \in HPAs :
              /\ nodes[h].metric # ""
              /\ AdapterDeployment # {} /\ AdapterAPIService # {}
              /\ AdapterDeployment \cup AdapterAPIService \subseteq Predecessors(h)

\* C2: each of the three OpenTelemetry sample application Deployments that
\* export to otel-collector.opentelemetry:4317 has the collector Deployment
\* and Service among its transitive dependency predecessors.
C2_AppsAfterCollector ==
    Built =>
        \A d \in Deployments :
            nodes[d].otlp = CollectorEndpoint =>
                /\ CollectorDeployment # {} /\ CollectorService # {}
                /\ CollectorDeployment \cup CollectorService \subseteq Predecessors(d)

\* C3: in Auto Mode every workload Deployment has the EnableAutoMode custom
\* resource among its transitive dependency predecessors.
C3_WorkloadsAfterAutoMode ==
    (Built /\ config.mode = "auto-mode") =>
        \A d \in Deployments : "EnableAutoMode" \in Predecessors(d)

\* C4: in Auto Mode each of the four cluster add-ons has EnableAutoMode as a
\* direct predecessor and EnableAutoMode has the cluster as its predecessor;
\* in Fargate mode no EnableAutoMode resource exists and no add-on has a
\* declared dependency.
C4_AddonsAfterAutoMode ==
    Built =>
        /\ {nodes[a].name : a \in Addons} = AddonNames
        /\ Cardinality(Addons) = 4
        /\ IF config.mode = "auto-mode"
           THEN /\ \A a \in Addons : "EnableAutoMode" \in DirectPredecessors(a)
                /\ ClusterResource(config.mode) \in DirectPredecessors("EnableAutoMode")
           ELSE /\ "EnableAutoMode" \notin DOMAIN nodes
                /\ \A a \in Addons :
                      DirectPredecessors(a) = {ClusterResource(config.mode)}

C4_Witness ==
    /\ Built
    /\ config.mode = "auto-mode"
    /\ "EnableAutoMode" \in Resources
    /\ Cardinality(Addons) = 4

\* C6: every declared object scoped to the monitoring or opentelemetry
\* namespace, Fargate profiles excepted, has a manifest declaring that
\* Namespace among its transitive dependency predecessors.
C6_NamespaceFirst ==
    Built =>
        \A n \in Resources :
            (nodes[n].ns \in {"monitoring", "opentelemetry"}
               /\ nodes[n].type # "AWS::EKS::FargateProfile") =>
                \E m \in OfKind("Namespace") :
                    nodes[m].name = nodes[n].ns /\ m \in Predecessors(n)

\* C7: every ClusterRoleBinding has the ClusterRole named in its roleRef as
\* a dependency predecessor.
C7_RoleBeforeBinding ==
    Built =>
        \A b \in OfKind("ClusterRoleBinding") :
            \E r \in OfKind("ClusterRole") :
                nodes[r].name = nodes[b].ref /\ r \in Predecessors(b)

\* C8: every Deployment whose pod template names a serviceAccountName or
\* mounts a ConfigMap volume declared by the build has that ServiceAccount
\* and that ConfigMap among its transitive dependency predecessors.
C8_AccountAndConfigFirst ==
    Built =>
        \A d \in Deployments :
            /\ nodes[d].sa # "" =>
                  \E s \in OfKind("ServiceAccount") :
                      /\ nodes[s].name = nodes[d].sa /\ nodes[s].ns = nodes[d].ns
                      /\ s \in Predecessors(d)
            /\ nodes[d].cm # "" =>
                  \E c \in OfKind("ConfigMap") :
                      /\ nodes[c].name = nodes[d].cm /\ nodes[c].ns = nodes[d].ns
                      /\ c \in Predecessors(d)

C8_Witness ==
    /\ Built
    /\ Cardinality({d \in Deployments : nodes[d].sa # "" /\ nodes[d].cm # ""}) = 3

\* C9: for each of the four sample workloads the Service has the workload's
\* Deployment as predecessor and the HPA has the workload's Service, and
\* hence the Deployment, among its transitive predecessors.
C9_DeploymentServiceHpa ==
    Built =>
        \A h \in HPAs :
            /\ TargetOf(h) # {}
            /\ \A d \in TargetOf(h) :
                  /\ ServiceOf(d) # {}
                  /\ \A s \in ServiceOf(d) :
                        /\ d \in DirectPredecessors(s)
                        /\ s \in Predecessors(h)
                        /\ d \in Predecessors(h)

---------------------------------------------------------------------------
(* auto_mode_lambda.on_event and the engine that drives it *)

MaxEvents == 3

RequestTypes == {"Create", "Update", "Delete", "Other"}

\* What eks_client.update_cluster_config does: "ok" starts an asynchronous
\* update and returns its id; the others raise
Outcomes == {"ok", "ResourceNotFoundException", "AccessDeniedException", "RuntimeError"}

IsClientError(outcome) ==
    outcome \in {"ResourceNotFoundException", "AccessDeniedException"}

PhysicalId(cluster_name) == cluster_name \o "-auto-mode"

Returned(cluster_name, st) ==
    [kind |-> "return", PhysicalResourceId |-> PhysicalId(cluster_name),
     Status |-> st, error |-> ""]

Raised(outcome) ==
    [kind |-> "raise", PhysicalResourceId |-> "", Status |-> "", error |-> outcome]

\* Variant of ProviderRequest that asks for Auto Mode on Create only
ProviderRequest_EnablesOnCreateOnly(request_type, cluster_name) ==
    IF request_type = "Create"
    THEN [name |-> cluster_name, enabled |-> "true",
          nodePools |-> {"general-purpose", "system"}]
    ELSE [name |-> cluster_name, enabled |-> "false", nodePools |-> {}]

\* The call on_event makes for a request type, if any (lines 22-42, 57-62)
ProviderRequest(request_type, cluster_name) ==
    IF request_type \in {"Create", "Update"}
    THEN [name |-> cluster_name, enabled |-> "true",
          nodePools |-> {"general-purpose", "system"}]
    ELSE [name |-> cluster_name, enabled |-> "false", nodePools |-> {}]

CallsProvider(request_type) == request_type \in {"Create", "Update", "Delete"}

\* Variant of OnEventResult without the delete-not-found case: every
\* provider error on Delete is raised
OnEventResult_RaisesOnDelete(request_type, cluster_name, outcome) ==
    IF request_type \in {"Create", "Update"}
    THEN IF outcome = "ok" THEN Returned(cluster_name, "INITIATED")
         ELSE Raised(outcome)
    ELSE IF request_type = "Delete"
    THEN IF outcome = "ok" THEN Returned(cluster_name, "DISABLED")
         ELSE Raised(outcome)
    ELSE [NoResult EXCEPT !.kind = "None"]

\* Variant of OnEventResult in which the not-found case is not restricted
\* to Delete (the request_type test of line 74 is missing)
OnEventResult_NotFoundOnAnyRequest(request_type, cluster_name, outcome) ==
    IF request_type \in {"Create", "Update"}
    THEN IF outcome = "ok" THEN Returned(cluster_name, "INITIATED")
         ELSE IF outcome = "ResourceNotFoundException"
         THEN Returned(cluster_name, "NOT_FOUND")
         ELSE Raised(outcome)
    ELSE IF request_type = "Delete"
    THEN IF outcome = "ok" THEN Returned(cluster_name, "DISABLED")
         ELSE IF IsClientError(outcome) /\ outcome = "ResourceNotFoundException"
         THEN Returned(cluster_name, "NOT_FOUND")
         ELSE Raised(outcome)
    ELSE [NoResult EXCEPT !.kind = "None"]

\* on_event: the value returned (or the error raised) for a request type
\* and an outcome of the provider call
OnEventResult(request_type, cluster_name, outcome) ==
    IF request_type \in {"Create", "Update"}
    THEN IF outcome = "ok" THEN Returned(cluster_name, "INITIATED")
         ELSE Raised(outcome)
    ELSE IF request_type = "Delete"
    THEN IF outcome = "ok" THEN Returned(cluster_name, "DISABLED")
         ELSE IF IsClientError(outcome) /\ outcome = "ResourceNotFoundException"
         THEN Returned(cluster_name, "NOT_FOUND")
         ELSE Raised(outcome)
    ELSE [NoResult EXCEPT !.kind = "None"]

\* cr.Provider is created with on_event_handler only (no is_complete
\* handler): the framework answers the engine as soon as on_event returns
ProviderHasIsComplete == FALSE

CallbackCluster == development.cluster_name

EngineNodes ==
    ClusterNodes("auto-mode") @@ EnableAutoModeNodes @@ AddonNodes(TRUE)

EngineResources == {ClusterResource("auto-mode"), "EnableAutoMode"} \cup DOMAIN AddonNodes(TRUE)

CallbackInit ==
    /\ pc = "deploy"
    /\ selector = "auto-mode"
    /\ account = "123456789012"
    /\ region = "us-west-2"
    /\ config = development
    /\ nodes = EngineNodes
    /\ deps = EnableAutoModeDeps("auto-mode") \cup AddonDeps(TRUE)
    /\ refs = ClusterRefs("auto-mode", AddonNodes(TRUE))
    /\ stackDeps = {}
    /\ manifests = <<>>
    /\ calls = 0
    /\ events = 0
    /\ invocation = NoInvocation
    /\ request = NoRequest
    /\ updateStatus = "none"
    /\ result = NoResult
    /\ providerCalls = 0
    /\ status = [r \in EngineResources |->
                    IF r = ClusterResource("auto-mode") THEN "complete" ELSE "pending"]
    /\ StacksIdle

Ready(r) == \A p \in DirectPredecessors(r) \cap DOMAIN status : status[p] = "complete"

\* The engine starts the custom resource: a Create request is on its way
EngineStartCustomResource ==
    /\ status["EnableAutoMode"] = "pending"
    /\ Ready("EnableAutoMode")
    /\ status' = [status EXCEPT !["EnableAutoMode"] = "in_progress"]
    /\ UNCHANGED <<pc, buildVars, deployVars, stackVars, events, invocation, request,
                   updateStatus, result, providerCalls>>

\* How the engine's view of the custom resource changes with the answer
AfterEvent(request_type, res, st) ==
    IF res.kind = "raise" THEN (IF request_type = "Create" THEN "failed" ELSE st)
    ELSE IF request_type = "Delete" THEN "deleted"
    ELSE IF ProviderHasIsComplete /\ updateStatus' = "InProgress" THEN "in_progress"
    ELSE "complete"

\* Variant of UpdateClusterConfigCalls that calls the provider a second
\* time when the first call fails
UpdateClusterConfigCalls_RetryOnFailure(request_type, outcome) ==
    IF ~CallsProvider(request_type) THEN 0
    ELSE IF outcome = "ok" THEN 1 ELSE 2

\* The update_cluster_config calls one run of on_event makes: one in the
\* Create/Update branch, one in the Delete branch, none in the handlers
UpdateClusterConfigCalls(request_type, outcome) ==
    IF CallsProvider(request_type) THEN 1 ELSE 0

\* The body of on_event for one event, from the request to the answer
Handler(request_type, cluster_name, outcome) ==
    /\ events' = events + 1
    /\ invocation' = [RequestType |-> request_type, ClusterName |-> cluster_name,
                      outcome |-> IF CallsProvider(request_type) THEN outcome
                                  ELSE "not called"]
    /\ providerCalls' = UpdateClusterConfigCalls(request_type, outcome)
    /\ IF CallsProvider(request_type) /\ outcome = "ok"
       THEN /\ request' = ProviderRequest(request_type, cluster_name)
            /\ updateStatus' = "InProgress"
       ELSE UNCHANGED <<request, updateStatus>>
    /\ result' = OnEventResult(request_type, cluster_name, outcome)
    /\ UNCHANGED <<pc, buildVars, deployVars, stackVars>>

\* One invocation of on_event by the provisioning engine
OnEvent(request_type, outcome) ==
    /\ events < MaxEvents
    /\ IF request_type = "Create"
       THEN status["EnableAutoMode"] = "in_progress"
       ELSE status["EnableAutoMode"] = "complete"
    /\ Handler(request_type, CallbackCluster, outcome)
    /\ status' = [status EXCEPT !["EnableAutoMode"] =
                     AfterEvent(request_type, result', status["EnableAutoMode"])]

\* The provider finishes the update it was asked for
ProviderCompleteUpdate ==
    /\ updateStatus = "InProgress"
    /\ updateStatus' = "Successful"
    /\ UNCHANGED <<pc, buildVars, deployVars, stackVars, events, invocation, request, result,
                   providerCalls, status>>

AddonStart(a) ==
    /\ status[a] = "pending"
    /\ Ready(a)
    /\ status' = [status EXCEPT ![a] = "in_progress"]
    /\ UNCHANGED <<pc, buildVars, deployVars, stackVars, events, invocation, request,
                   updateStatus, result, providerCalls>>

AddonComplete(a) ==
    /\ status[a] = "in_progress"
    /\ status' = [status EXCEPT ![a] = "complete"]
    /\ UNCHANGED <<pc, buildVars, deployVars, stackVars, events, invocation, request,
                   updateStatus, result, providerCalls>>

CallbackNext ==
    \/ EngineStartCustomResource
    \/ \E rt \in RequestTypes, o \in Outcomes : OnEvent(rt, o)
    \/ ProviderCompleteUpdate
    \/ \E a \in DOMAIN AddonNodes(TRUE) : AddonStart(a)
    \/ \E a \in DOMAIN AddonNodes(TRUE) : AddonComplete(a)

SpecCallback == CallbackInit /\ [][CallbackNext]_vars

\* C5: the callback reports success only once activation is complete, so no
\* successor of EnableAutoMode (a cluster add-on) starts provisioning while
\* the update the callback initiated is still in progress.
C5_AddonsStartAfterActivation ==
    [][\A a \in DOMAIN AddonNodes(TRUE) :
          (status[a] = "pending" /\ status'[a] = "in_progress")
              => updateStatus # "InProgress"]_vars

---------------------------------------------------------------------------
(* DeploymentConstruct: any sequence of add_* calls *)

MaxCalls == 3

Names == {"app", "web-app"}

\* name.replace('-', '') for the names above
StripDashes(name) == IF name = "web-app" THEN "webapp" ELSE name

DeployMode == "auto-mode"

DeployInit ==
    /\ pc = "calls"
    /\ selector = "auto-mode"
    /\ account = "123456789012"
    /\ region = "us-west-2"
    /\ config = development
    /\ nodes = ClusterNodes(DeployMode)
               @@ ("test-deployment" :> Node("App", FALSE, "Construct"))
    /\ deps = {}
    /\ refs = {}
    /\ stackDeps = {}
    /\ manifests = <<>>
    /\ calls = 0
    /\ CallbackIdle
    /\ StacksIdle

\* The manifests a caller can pass as dependencies: those returned so far
Returnable == {manifests[i] : i \in DOMAIN manifests}

\* Variant of AddManifest in which manifests.append sits inside the
\* "if dependencies:" block
AddManifest_AppendsOnlyWithDependencies(id, k, dependencies) ==
    /\ calls < MaxCalls
    /\ id \notin DOMAIN nodes
    /\ nodes' = (id :> Manifest(DeployMode, k)) @@ nodes
    /\ deps' = deps \cup {<<id, d>> : d \in dependencies}
    /\ refs' = refs \cup {<<id, ClusterResource(DeployMode)>>}
    /\ manifests' = IF dependencies # {} THEN Append(manifests, id) ELSE manifests
    /\ calls' = calls + 1
    /\ UNCHANGED <<pc, selector, account, region, config, stackDeps>>
    /\ UNCHANGED <<callbackVars, stackVars>>

\* The common tail of every add_* method: cluster.add_manifest, one
\* add_dependency per entry of dependencies, manifests.append
AddManifest(id, k, dependencies) ==
    /\ calls < MaxCalls
    /\ id \notin DOMAIN nodes
    /\ nodes' = (id :> Manifest(DeployMode, k)) @@ nodes
    /\ deps' = deps \cup {<<id, d>> : d \in dependencies}
    /\ refs' = refs \cup {<<id, ClusterResource(DeployMode)>>}
    /\ manifests' = Append(manifests, id)
    /\ calls' = calls + 1
    /\ UNCHANGED <<pc, selector, account, region, config, stackDeps>>
    /\ UNCHANGED <<callbackVars, stackVars>>

add_namespace(name) ==
    AddManifest(StripDashes(name) \o "Namespace", K8s("Namespace", name, ""), {})

add_deployment(name, dependencies) ==
    AddManifest(StripDashes(name) \o "Deployment",
                K8s("Deployment", name, "default"), dependencies)

add_service(name, dependencies) ==
    AddManifest(StripDashes(name) \o "Service",
                K8s("Service", name, "default"), dependencies)

add_config_map(name, namespace, dependencies) ==
    AddManifest(StripDashes(name) \o "ConfigMap",
                K8s("ConfigMap", name, namespace), dependencies)

add_horizontal_pod_autoscaler(name, namespace, target_name, dependencies) ==
    AddManifest(StripDashes(name) \o "HPA",
                [K8s("HorizontalPodAutoscaler", name, namespace)
                    EXCEPT !.ref = target_name],
                dependencies)

DeployNext ==
    \/ \E n \in Names : add_namespace(n)
    \/ \E n \in Names, ds \in SUBSET Returnable : add_deployment(n, ds)
    \/ \E n \in Names, ds \in SUBSET Returnable : add_service(n, ds)
    \/ \E n \in Names, ds \in SUBSET Returnable : add_config_map(n, "default", ds)
    \/ \E n \in Names, t \in Names, ds \in SUBSET Returnable :
          add_horizontal_pod_autoscaler(n, "default", t, ds)

SpecDeploy == DeployInit /\ [][DeployNext]_vars

\* C10: an HPA added with add_horizontal_pod_autoscaler whose target_name
\* names a Deployment added with add_deployment has the edge
\* Deployment -> HPA, for either order of the two calls and whether or not
\* a dependencies list is passed.
C10_HpaTargetEdge ==
    \A h \in HPAs : \A d \in TargetOf(h) : d \in DirectPredecessors(h)

---------------------------------------------------------------------------
(* A caller of DeploymentConstruct that also orders the manifests it got   *)
(* back and then synthesizes                                               *)

\* x.node.add_dependency(y) on two manifests the construct returned, as the
\* workload constructs do (hpa.node.add_dependency(app_deployment))
DeclareDependency(s, t) ==
    /\ pc = "calls"
    /\ calls < MaxCalls
    /\ s # t
    /\ deps' = deps \cup {<<s, t>>}
    /\ calls' = calls + 1
    /\ UNCHANGED <<pc, selector, account, region, config, nodes, refs, stackDeps,
                   manifests>>
    /\ UNCHANGED <<callbackVars, stackVars>>

\* app.synth(): the construct library expands the declared dependencies of
\* one stack into DependsOn lists without looking for a cycle; the template
\* is written and the build ends
SynthDeployed ==
    /\ pc = "calls"
    /\ pc' = "done"
    /\ UNCHANGED buildVars
    /\ UNCHANGED otherVars

GraphNext ==
    \/ (pc = "calls" /\ DeployNext)
    \/ \E s \in Returnable, t \in Returnable : DeclareDependency(s, t)
    \/ SynthDeployed

SpecGraph == DeployInit /\ [][GraphNext]_vars

\* A resource that is its own transitive predecessor
OnCycle == {r \in Resources : r \in Predecessors(r)}

\* C11: a configuration whose declared dependency edges contain a
\* predecessor cycle is rejected during the build, so no build finishes
\* (synthesis completes) with a cyclic graph.
C11_NoCyclicBuild == Built => OnCycle = {}

---------------------------------------------------------------------------
(* Fargate profiles and namespaces *)

\* The edges the build's own add_dependency calls expand to
DeclaredEdges ==
    UNION {{<<s, t>> : s \in CfnResources(nodes, d[1]),
                       t \in CfnResources(nodes, d[2])} : d \in deps}

FargateProfiles == {n \in Resources : nodes[n].type = "AWS::EKS::FargateProfile"}

---------------------------------------------------------------------------
(* Error handling of on_event *)

Invoked == events > 0

ProviderFailed == Invoked /\ invocation.outcome \in Outcomes \ {"ok"}

DeleteNotFound ==
    /\ Invoked
    /\ invocation.RequestType = "Delete"
    /\ invocation.outcome = "ResourceNotFoundException"

\* C13: when on_event is invoked with RequestType Delete and the provider
\* call fails with ResourceNotFoundException, on_event does not raise; it
\* returns a payload with PhysicalResourceId '<ClusterName>-auto-mode' and
\* Data.Status 'NOT_FOUND'.
C13_DeleteNotFoundReturns ==
    DeleteNotFound =>
        /\ result.kind = "return"
        /\ result.PhysicalResourceId = invocation.ClusterName \o "-auto-mode"
        /\ result.Status = "NOT_FOUND"

C13_Witness == DeleteNotFound /\ status["EnableAutoMode"] = "deleted"

\* C14: delete-not-found is the only provider error on_event turns into a
\* success: any error on Create or Update (ResourceNotFoundException
\* included) and any other error on Delete is raised to the caller
\* unchanged, and nothing is returned.
C14_OtherErrorsRaised ==
    (ProviderFailed /\ ~DeleteNotFound) =>
        /\ result.kind = "raise"
        /\ result.error = invocation.outcome
        /\ result.PhysicalResourceId = ""

C14_Witness ==
    /\ ProviderFailed
    /\ invocation.RequestType = "Update"
    /\ invocation.outcome = "ResourceNotFoundException"
    /\ result.kind = "raise"

\* C15: for every RequestType value on_event either raises or returns a
\* payload with the PhysicalResourceId '<ClusterName>-auto-mode' (the same
\* on Create, Update, Delete and delete-not-found); it never returns
\* without a payload.
C15_RaisesOrReturnsPayload ==
    Invoked =>
        \/ result.kind = "raise"
        \/ /\ result.kind = "return"
           /\ result.PhysicalResourceId = PhysicalId(invocation.ClusterName)

---------------------------------------------------------------------------
(* Configuration resolution *)

Resolved == pc # "config" /\ config # NoConfig

\* C16: configuration resolution is total in the mode selector: 'fargate'
\* yields mode 'fargate', fargate_profiles default, monitoring,
\* opentelemetry, kube-system and auto_mode_enabled False; every other
\* selector, the absent one included, yields mode 'auto-mode' and
\* auto_mode_enabled True; so auto_mode_enabled holds exactly when mode is
\* 'auto-mode'.
C16_ResolutionByMode ==
    (pc # "config") =>
        /\ IF selector = "fargate"
           THEN /\ config.mode = "fargate"
                /\ config.fargate_profiles =
                      <<"default", "monitoring", "opentelemetry", "kube-system">>
                /\ config.auto_mode_enabled = FALSE
           ELSE /\ config.mode = "auto-mode"
                /\ config.auto_mode_enabled = TRUE
        /\ config.auto_mode_enabled <=> (config.mode = "auto-mode")

C16_Witness == Resolved /\ selector = "bogus" /\ pc = "NetworkStack"

---------------------------------------------------------------------------
(* Input validation *)

ValidModes == {"fargate", "auto-mode"}

\* An unrecognized mode selector (an absent one stands for "auto-mode"), or
\* an account or region the environment does not provide
InvalidInput ==
    \/ ComputeMode(selector) \notin ValidModes
    \/ account = "none"
    \/ region = "none"

Stacks == {n \in DOMAIN nodes : nodes[n].type = "Stack"}

\* C17: invalid input (a mode selector that is neither 'fargate' nor
\* 'auto-mode', a missing account or region) aborts the build before the
\* first stack is constructed, so no stack and no resource is ever declared
\* from it.
C17_InvalidInputRejected ==
    InvalidInput => (Stacks = {} /\ Resources = {} /\ ~Built)

---------------------------------------------------------------------------
(* Mode-dependent overlays in the declared manifests *)

WorkloadNames ==
    {"prometheus-server", "prometheus-adapter", "otel-collector",
     "sample-metrics-app", "otel-sample-app", "go-otel-sample-app",
     "java-otel-sample-app"}

\* The placement hints a declared pod template carries
PlacementOf(d) ==
    [nodeSelector |-> nodes[d].nodeSelector, tolerations |-> nodes[d].tolerations]

\* C18: pod placement hints depend on compute mode alone and apply to every
\* workload: in Fargate mode every workload pod template (Prometheus,
\* metrics adapter, OTEL collector, four sample apps) carries the Fargate
\* nodeSelector and the Fargate toleration; in Auto Mode none carries a
\* nodeSelector or any toleration.
C18_PlacementByMode ==
    Built =>
        /\ {nodes[d].name : d \in Deployments} = WorkloadNames
        /\ \A d \in Deployments :
              IF config.mode = "fargate"
              THEN /\ nodes[d].nodeSelector = {<<ComputeTypeKey, "fargate">>}
                   /\ Toleration("fargate") \in nodes[d].tolerations
              ELSE /\ nodes[d].nodeSelector = {}
                   /\ nodes[d].tolerations = {}

AdapterConfigMaps == {c \in OfKind("ConfigMap") : nodes[c].name = "adapter-config"}

PrometheusDeployments == {d \in Deployments : nodes[d].name = "prometheus-server"}

\* C19: the overlays selected for 'auto-mode' and for 'fargate' differ both
\* in the node-placement hints and in the metrics-adapter rule set (the set
\* of rules in the adapter config document): what a build declares for its
\* mode is not what the other mode selects.
C19_OverlaysDiffer ==
    Built =>
        \A m \in ValidModes \ {config.mode} :
            /\ PrometheusDeployments # {} /\ AdapterConfigMaps # {}
            /\ \A d \in PrometheusDeployments :
                  PlacementOf(d) # get_pod_spec([mode |-> m])
            /\ \A c \in AdapterConfigMaps :
                  RuleSet(nodes[c].data) # RuleSet(get_adapter_config(m))

---------------------------------------------------------------------------
(* Prometheus before the metrics adapter *)

\* C21: in both compute modes the metrics-adapter Deployment, and hence its
\* Service and APIService, has the Prometheus Deployment among its
\* transitive dependency predecessors.
C21_AdapterAfterPrometheus ==
    Built =>
        /\ PrometheusDeployments # {} /\ AdapterDeployment # {}
        /\ \A a \in AdapterDeployment \cup AdapterAPIService :
              PrometheusDeployments \subseteq Predecessors(a)

---------------------------------------------------------------------------
(* DeploymentConstruct.manifests *)

\* C22: after any sequence of add_namespace, add_deployment, add_service,
\* add_config_map and add_horizontal_pod_autoscaler calls the manifests list
\* (empty at construction) holds one entry per call, in call order, each
\* entry being the manifest that call declared; no call removes or reorders
\* earlier entries.
C22_ManifestsAppendOnly ==
    [][/\ Len(manifests') = calls'
       /\ calls' = calls + 1
       /\ SubSeq(manifests', 1, Len(manifests)) = manifests
       /\ manifests'[Len(manifests')] \in DOMAIN nodes' \ DOMAIN nodes]_vars

C22_Witness ==
    /\ calls = 3
    /\ Len(manifests) = 3
    /\ nodes[manifests[1]].kind = "Namespace"
    /\ nodes[manifests[2]].kind = "Deployment"
    /\ nodes[manifests[3]].kind = "HorizontalPodAutoscaler"


---------------------------------------------------------------------------
(* Components built on their own, each from an input of its own, the way   *)
(* src/tests/unit builds them: EcrRepositoriesStack from a list of names,  *)
(* ObservabilityStack from a monitoring configuration, SampleAppConstruct  *)
(* from a compute configuration and a stand-in cluster                     *)

MaxRepos == 3

MaxNegativeDays == 2

MaxDays == 3660

RepoNames == {"sample-metrics-app", "otel-sample-app", "web-app", "webapp"}

NameLists == UNION {[1..n -> RepoNames] : n \in 0..MaxRepos}

\* compute_config=None, the auto-mode configuration, the fargate one
ComputeConfigs == {NoConfig, development, fargate_development}

ComponentInit ==
    /\ pc = "component"
    /\ selector = "none"
    /\ account = "123456789012"
    /\ region = "us-west-2"
    /\ config = NoConfig
    /\ nodes = ("App" :> Node("", FALSE, "App"))
    /\ deps = {}
    /\ refs = {}
    /\ stackDeps = {}
    /\ manifests = <<>>
    /\ calls = 0
    /\ CallbackIdle
    /\ StacksIdle

BuildEcrRepositoriesStack ==
    /\ pc = "component"
    /\ \E names \in NameLists : EcrConstructor(names, "ecr")

BuildObservabilityStack ==
    /\ pc = "component"
    /\ \E days \in (0 - MaxNegativeDays)..MaxDays :
          /\ config' = [NoConfig EXCEPT !.retention_days = days]
          /\ ObservabilityConstructor(config', "observability")

BuildSampleAppConstruct ==
    /\ pc = "component"
    /\ \E compute_config \in ComputeConfigs :
          /\ config' = compute_config
          /\ nodes' = SampleAppNodes(compute_config.mode) @@ nodes
          /\ deps' = deps \cup SampleAppDeps
          /\ add_manifest_calls' = SampleAppManifests
    /\ pc' = "sample_app"
    /\ UNCHANGED <<selector, account, region, refs, stackDeps>>
    /\ UNCHANGED <<deployVars, callbackVars, repoArg, repositories, repoIndex,
                   retention>>

ComponentNext ==
    \/ BuildEcrRepositoriesStack
    \/ BuildObservabilityStack
    \/ BuildSampleAppConstruct

SpecComponent == ComponentInit /\ [][ComponentNext]_vars

---------------------------------------------------------------------------
(* EcrRepositoriesStack *)

Range(seq) == {seq[i] : i \in DOMAIN seq}

Distinct(seq) == \A i, j \in DOMAIN seq : i # j => seq[i] # seq[j]

\* The repositories the stack holds for a name
RepositoriesNamed(n) ==
    {id \in DOMAIN nodes :
        nodes[id].type = "AWS::ECR::Repository" /\ nodes[id].name = n}

EcrBuilt == pc \in {"ecr", "error"}

\* C23: for every list of distinct repository names the stack is built and
\* declares exactly one repository per name, named after it; the keys of
\* the repositories map are the names given, and no two names map to the
\* same repository.
C23_OneRepositoryPerName ==
    (EcrBuilt /\ Distinct(repoArg)) =>
        /\ pc = "ecr"
        /\ DOMAIN repositories = Range(repoArg)
        /\ \A n \in Range(repoArg) : Cardinality(RepositoriesNamed(n)) = 1
        /\ \A m, n \in DOMAIN repositories :
              m # n => repositories[m] # repositories[n]


---------------------------------------------------------------------------
(* SampleAppConstruct on its own *)

SampleAppBuilt == pc = "sample_app"

DeclaredManifests == {id \in DOMAIN nodes : nodes[id].type = "KubernetesManifest"}

\* C24: SampleAppConstruct declares exactly three manifests, a Deployment,
\* a Service and a HorizontalPodAutoscaler in that order, whether its
\* compute_config is absent, the auto-mode one or the fargate one.
C24_ThreeManifestsInOrder ==
    SampleAppBuilt =>
        /\ Len(add_manifest_calls) = 3
        /\ Cardinality(DeclaredManifests) = 3
        /\ Range(add_manifest_calls) = DeclaredManifests
        /\ [i \in 1..3 |-> nodes[add_manifest_calls[i]].kind]
              = <<"Deployment", "Service", "HorizontalPodAutoscaler">>

C24_Witness ==
    /\ SampleAppBuilt
    /\ config.mode = "fargate"
    /\ nodes["SampleMetricsAppDeployment"].nodeSelector # {}
    /\ "SampleMetricsAppHPA" \in DeclaredManifests


---------------------------------------------------------------------------
(* on_event: provider calls per invocation *)

\* C25: on_event never retries.  An invocation with request type Create,
\* Update or Delete issues exactly one update_cluster_config call, whether
\* the call succeeds or fails; after a failed call the invocation makes no
\* further one.
C25_OneProviderCall ==
    (Invoked /\ CallsProvider(invocation.RequestType)) => providerCalls = 1

C25_Witness ==
    /\ ProviderFailed
    /\ invocation.RequestType = "Update"
    /\ invocation.outcome = "AccessDeniedException"
    /\ result.kind = "raise"
    /\ providerCalls = 1


---------------------------------------------------------------------------
(* on_event under any sequence of events *)

ClusterNames == {development.cluster_name, fargate_development.cluster_name}

HandlerInit ==
    /\ pc = "handler"
    /\ selector = "auto-mode"
    /\ account = "123456789012"
    /\ region = "us-west-2"
    /\ config = development
    /\ nodes = ("App" :> Node("", FALSE, "App"))
    /\ deps = {}
    /\ refs = {}
    /\ stackDeps = {}
    /\ manifests = <<>>
    /\ calls = 0
    /\ CallbackIdle
    /\ StacksIdle

\* on_event called with an event of any request type, whatever came before
Invoke(request_type, cluster_name, outcome) ==
    /\ events < MaxEvents
    /\ Handler(request_type, cluster_name, outcome)
    /\ UNCHANGED status

HandlerNext ==
    \/ \E rt \in RequestTypes, cn \in ClusterNames, o \in Outcomes : Invoke(rt, cn, o)
    \/ ProviderCompleteUpdate

SpecHandler == HandlerInit /\ [][HandlerNext]_vars

\* C26: the callback is idempotent and last-writer-wins.  After each
\* successful invocation the setting requested from the provider is Auto
\* Mode enabled with the node pools general-purpose and system when the
\* event was Create or Update, and Auto Mode disabled when it was Delete,
\* whatever events came before; repeating the event just handled gives the
\* same PhysicalResourceId and the same requested configuration.
C26_LastWriterWins ==
    [][(events' = events + 1 /\ invocation'.outcome = "ok") =>
          /\ request'.name = invocation'.ClusterName
          /\ invocation'.RequestType \in {"Create", "Update"} =>
                /\ request'.enabled = "true"
                /\ request'.nodePools = {"general-purpose", "system"}
          /\ invocation'.RequestType = "Delete" => request'.enabled = "false"
          /\ result'.kind = "return"
          /\ result'.PhysicalResourceId = invocation'.ClusterName \o "-auto-mode"
          /\ (invocation.outcome = "ok" /\ invocation' = invocation) =>
                /\ request' = request
                /\ result'.PhysicalResourceId = result.PhysicalResourceId]_vars

C26_Witness ==
    /\ events >= 2
    /\ invocation.RequestType = "Update"
    /\ invocation.outcome = "ok"
    /\ request.enabled = "true"
    /\ request.nodePools = {"general-purpose", "system"}
    /\ result.Status = "INITIATED"


---------------------------------------------------------------------------
(* ObservabilityStack: log retention *)

ObservabilityBuilt == pc = "observability"

\* The retention periods, in days, the claim enumerates
Periods == {1, 3, 5, 7, 14, 30, 60, 90, 120, 150, 180, 365, 400, 545, 731, 1827, 3653}

\* C27: for every integer days, _get_retention_days returns the shortest
\* of the enumerated retention periods that is at least days, ONE_DAY for
\* days <= 1 (zero and negative values included) and INFINITE for
\* days > 3653; the chosen retention is never shorter than requested, does
\* not decrease when days grows, and both log groups receive it.
C27_ShortestSufficientRetention ==
    ObservabilityBuilt =>
        LET days == config.retention_days
            r == retention["ApplicationLogGroup"]
        IN  /\ retention["OtelAppLogGroup"] = r
            /\ days <= 1 => r = "ONE_DAY"
            /\ days > 3653 => r = "INFINITE"
            /\ days <= 3653 =>
                  /\ RetentionDays[r] \in Periods
                  /\ \A p \in Periods : p >= days => RetentionDays[r] <= p
            /\ RetentionDays[r] >= days
            /\ RetentionDays[get_retention_days(days - 1)] <= RetentionDays[r]

C27_Witness ==
    /\ ObservabilityBuilt
    /\ config.retention_days = 8
    /\ retention["ApplicationLogGroup"] = "TWO_WEEKS"
    /\ retention["OtelAppLogGroup"] = "TWO_WEEKS"


---------------------------------------------------------------------------
(* The whole declared graph *)

\* The stack a construct belongs to
RECURSIVE StackOf(_)
StackOf(n) ==
    IF n \notin DOMAIN nodes THEN ""
    ELSE IF nodes[n].type = "Stack" THEN n
    ELSE StackOf(nodes[n].parent)

\* Stack.add_dependency declarations, and the stack-level edge every
\* resource edge between two stacks gives
StackEdges ==
    stackDeps \cup
    {e \in {<<StackOf(x[1]), StackOf(x[2])>> : x \in ResourceEdges} : e[1] # e[2]}

StacksOnCycle == {s \in Stacks : s \in Closure(StackEdges, {s}, {})}

\* C28: the dependency graph app.py declares (stack-level edges,
\* construct-level edges expanded to the resources the constructs hold, and
\* manifest-level edges) has no cycle, for both mode selectors.
C28_DeclaredGraphAcyclic ==
    Built =>
        /\ config.mode \in ValidModes
        /\ \A r \in Resources : r \notin Closure(ResourceEdges, {r}, {})
        /\ StacksOnCycle = {}

C28_Witness ==
    /\ Built
    /\ config.mode = "auto-mode"
    /\ StackDependencies \subseteq StackEdges
    /\ "SampleMetricsAppDeployment" \in Predecessors("EnableAutoMode")
    /\ "PrometheusAdapterConfig" \in Predecessors("PrometheusAdapterDeployment")


---------------------------------------------------------------------------
(* Autoscaler metrics and the adapter rules *)

\* The value of the app label matcher in a rule's seriesQuery
AppLabel(seriesQuery) ==
    CASE seriesQuery = "http_requests_total{app=\"java-otel-sample-app\"}" ->
            "java-otel-sample-app"
      [] seriesQuery = "http_requests_total{app=\"go-otel-sample-app\"}" ->
            "go-otel-sample-app"
      [] seriesQuery = "sample_app_requests_total{app=\"sample-metrics-app\"}" ->
            "sample-metrics-app"
      [] seriesQuery = "pod_cpu_utilization{app=\"otel-sample-app\"}" ->
            "otel-sample-app"
      [] OTHER -> ""

\* The metric names the sample workloads' autoscalers scale on
ScaledMetrics == {nodes[h].metric : h \in HPAs}

\* C29: in both compute modes the custom metric each sample workload's HPA
\* scales on (sample_app_requests_rate, pod_cpu_utilization,
\* go_app_requests_rate, java_app_requests_rate) is exposed under that name
\* by a rule of the adapter document declared for the mode, and that rule's
\* app label matcher names the workload the HPA scales.
C29_ScaledMetricsExposed ==
    Built =>
        /\ ScaledMetrics = {"sample_app_requests_rate", "pod_cpu_utilization",
                            "go_app_requests_rate", "java_app_requests_rate"}
        /\ AdapterConfigMaps # {}
        /\ \A h \in HPAs : \A c \in AdapterConfigMaps :
              \E i \in DOMAIN nodes[c].data :
                 /\ nodes[c].data[i].as = nodes[h].metric
                 /\ AppLabel(nodes[c].data[i].seriesQuery) = nodes[h].ref
                 /\ \E d \in Deployments : nodes[d].name = nodes[h].ref

C29_Witness ==
    /\ Built
    /\ config.mode = "fargate"
    /\ nodes["GoOtelAppHPA"].metric = "go_app_requests_rate"
    /\ nodes["GoOtelAppHPA"].ref = "go-otel-sample-app"
    /\ \A c \in AdapterConfigMaps : nodes[c].data = get_fargate_config
    /\ Cardinality(HPAs) = 4


---------------------------------------------------------------------------
(* Namespace ownership *)

\* The Namespace manifests that declare the namespace called name
NamespaceManifests(name) == {n \in OfKind("Namespace") : nodes[n].name = name}

\* C30: in the build done by app.py each Kubernetes namespace is declared
\* by exactly one Namespace manifest, in both compute modes: exactly one
\* manifest declares 'monitoring' and exactly one declares 'opentelemetry'.
C30_OneManifestPerNamespace ==
    Built =>
        /\ Cardinality(NamespaceManifests("monitoring")) = 1
        /\ Cardinality(NamespaceManifests("opentelemetry")) = 1
        /\ \A m, n \in OfKind("Namespace") : nodes[m].name = nodes[n].name => m = n

=============================================================================
